---------------------------- MODULE Spec2Model ----------------------------
(***************************************************************************)
(* A model of mqtt-bench (src/src/mqtt-bench/mqtt-bench.go): the CLI       *)
(* front-end (main), the benchmark driver (Execute), the fan-out of one    *)
(* goroutine per client (PublishAllClient / SubscribeAllClient), the       *)
(* protocol adapter (Connect, Publish, Subscribe, Disconnect) and the      *)
(* message generator (CreateFixedSizeMessage).                             *)
(*                                                                         *)
(* Go strings are modelled as sequences of bytes, so that the conversion   *)
(* string(int) (an int to the UTF-8 encoding of the code point it names)   *)
(* is modelled by what it does.                                            *)
(***************************************************************************)
EXTENDS Integers, Sequences, FiniteSets, TLC

VARIABLES
    pc,         \* position of the main goroutine
    args,       \* the command line: hasArgs and the parsed flag values
    method,     \* main's local "method": "", "pub" or "sub"
    opts,       \* the ExecOptions handed to Execute
    message,    \* Execute's local "message"
    clients,    \* Execute's slice of handles: index -> "nil" | "live" | "closed"
    i,          \* loop variable of Execute's connect / disconnect loops
    hasErr,     \* Execute's local hasErr
    connLog,    \* the Connect calls made so far, in order
    discCount,  \* index -> number of Disconnect calls made on that handle
    startTime,  \* Execute's startTime (nanoseconds within the second)
    endTime,    \* Execute's endTime (nanoseconds within the second)
    now,        \* the wall clock: [sec, nsec]
    startClock, \* the wall clock when startTime was read
    endClock,   \* the wall clock when endTime was read
    id,         \* loop variable of the spawning loop, shared with the goroutines
    wg,         \* the WaitGroup counter
    wpc,        \* worker -> "idle" | "loop" | "wait" | "done"
    windex,     \* worker -> its loop variable "index"
    wclient,    \* worker -> the handle (index into clients) its closure captured
    ops,        \* worker -> the operations it issued, in order
    errLines,   \* the number of error lines the workers have printed
    out,        \* the lines printed by the main goroutine, in order
    summary,    \* the values printed in the result line
    fnIn,       \* the arguments of a function applied on its own
    fnOut       \* the result of that application

vars == <<pc, args, method, opts, message, clients, i, hasErr, connLog,
          discCount, startTime, endTime, now, startClock, endClock, id, wg,
          wpc, windex, wclient, ops, errLines, out, summary, fnIn, fnOut>>

---------------------------------------------------------------------------
(* Bounds of the model *)

MaxClients == 2
MaxCount == 2
MaxSize == 2
MaxMsgSize == 13
MaxIndex == 2
MaxOps == 4

(* Program constants *)
NanosPerSecond == 1000000000
NanosPerMilli == 1000000

---------------------------------------------------------------------------
(* Go's integer division and conversions *)

\* Go's a / b for b > 0: truncated toward zero.
GoDiv(a, b) == IF a >= 0 THEN a \div b ELSE -((-a) \div b)

\* byte(x) for an int x: the low 8 bits.
ToByte(x) == x % 256

\* A code point that string(int) encodes as itself; every other int becomes U+FFFD.
\* (0 .. 0x10FFFF without the surrogates 0xD800 .. 0xDFFF.)
IsValidRune(r) ==
    \/ 0 <= r /\ r < 55296
    \/ 57343 < r /\ r <= 1114111

\* string(r) for an int r: the UTF-8 encoding of the code point r, or of
\* U+FFFD when r is no valid code point.
IntToString(r) ==
    IF ~IsValidRune(r) THEN <<239, 191, 189>>
    ELSE IF r < 128 THEN <<r>>
    ELSE IF r < 2048 THEN <<192 + (r \div 64), 128 + (r % 64)>>
    ELSE IF r < 65536
         THEN <<224 + (r \div 4096), 128 + ((r \div 64) % 64), 128 + (r % 64)>>
    ELSE <<240 + (r \div 262144), 128 + ((r \div 4096) % 64),
           128 + ((r \div 64) % 64), 128 + (r % 64)>>

\* "/go-mqtt/benchmark/"
TopicPrefix ==
    <<47, 103, 111, 45, 109, 113, 116, 116, 47,
      98, 101, 110, 99, 104, 109, 97, 114, 107, 47>>

\* "mqtt-benchmark"
ClientIDPrefix ==
    <<109, 113, 116, 116, 45, 98, 101, 110, 99, 104, 109, 97, 114, 107>>

\* "/go-mqtt/benchmark/" + string(id) + "/" + string(index)
Topic(cid, index) ==
    TopicPrefix \o IntToString(cid) \o <<47>> \o IntToString(index)

\* "mqtt-benchmark" + string(id)
ClientID(cid) == ClientIDPrefix \o IntToString(cid)

\* The digit written for position k of the message: string(k % 10).
MessageChar(k) == IntToString(k % 10)

RECURSIVE WriteLoop(_, _, _)
WriteLoop(buffer, k, size) ==
    IF k < size THEN WriteLoop(buffer \o MessageChar(k), k + 1, size)
    ELSE buffer

CreateFixedSizeMessage(size) == WriteLoop(<<>>, 0, size)

---------------------------------------------------------------------------
(* The command line *)

PlaceholderBroker == "tcp://{host}:{port}"
PlaceholderAction == "p/pub/publish or s/sub/subscribe"

BrokerFlags == {"", PlaceholderBroker, "tcp://localhost:1883"}
ActionFlags == {PlaceholderAction, "foo", "p", "pub", "publish", "s", "sub", "subscribe"}
ClientsFlags == -1 .. MaxClients
CountFlags == -1 .. MaxCount
SizeFlags == -1 .. MaxSize
QosFlags == {-1, 0, 1, 2, 3, 256}

\* The flags' defaults: the values when the program is run with no arguments.
DefaultArgs ==
    [hasArgs |-> FALSE, broker |-> PlaceholderBroker, action |-> PlaceholderAction,
     clients |-> 10, count |-> 100, size |-> 1024, qos |-> 0]

\* The command lines checked: the one with no arguments; every combination of
\* flag values that starts at most one client doing at most one operation; and
\* the runs of up to MaxClients clients and MaxCount operations each, at most
\* MaxOps operations in all, in either mode, with a message of MaxSize bytes.
CliLines ==
    [hasArgs : {TRUE}, broker : BrokerFlags, action : ActionFlags,
     clients : -1 .. 1, count : -1 .. 1, size : SizeFlags, qos : QosFlags]

RunLines ==
    {l \in [hasArgs : {TRUE}, broker : {"tcp://localhost:1883"},
            action : {"p", "s"}, clients : ClientsFlags, count : CountFlags,
            size : {MaxSize}, qos : {1}] :
        l.clients * l.count <= MaxOps}

CommandLines == {DefaultArgs} \cup CliLines \cup RunLines

\* ExecOptions{}
ZeroOptions ==
    [Broker |-> "", ClientNum |-> 0, Count |-> 0, MessageSize |-> 0, Qos |-> 0]

NoSummary == [printed |-> FALSE]

\* ValidBroker without the test for the placeholder default.
ValidBrokerNoPlaceholder(b) == ~(b = "")

ValidBroker(b) == ~(b = "" \/ b = PlaceholderBroker)

\* MethodOf with "sub" listed among the publish actions.
MethodOfSubAsPub(a) ==
    IF a = "p" \/ a = "pub" \/ a = "publish" \/ a = "sub" THEN "pub"
    ELSE IF a = "s" \/ a = "subscribe" THEN "sub"
    ELSE ""

MethodOf(a) ==
    IF a = "p" \/ a = "pub" \/ a = "publish" THEN "pub"
    ELSE IF a = "s" \/ a = "sub" \/ a = "subscribe" THEN "sub"
    ELSE ""

ValidMethod(m) == ~(m # "pub" /\ m # "sub")

OptionsOf(a) ==
    [Broker |-> a.broker, ClientNum |-> a.clients, Count |-> a.count,
     MessageSize |-> a.size, Qos |-> ToByte(a.qos)]

---------------------------------------------------------------------------
(* The wall clock *)

\* The wall clock when the timed phase starts: 0.9 s into a second.
StartClocks == {[sec |-> 0, nsec |-> 900000000]}

\* How long the timed phase may take: 0.4 ms, 50 ms, 200 ms, 1 s.
ElapsedSamples ==
    {[sec |-> 0, nsec |-> 400000], [sec |-> 0, nsec |-> 50000000],
     [sec |-> 0, nsec |-> 200000000], [sec |-> 1, nsec |-> 0]}

ClockAdd(c, d) ==
    [sec |-> c.sec + d.sec + ((c.nsec + d.nsec) \div NanosPerSecond),
     nsec |-> (c.nsec + d.nsec) % NanosPerSecond]

\* time.Now().Nanosecond(): the nanosecond offset within the second.
Nanosecond(c) == c.nsec

\* The wall-clock time from s to e in whole milliseconds.
WallElapsedMs(s, e) ==
    (e.sec - s.sec) * (NanosPerSecond \div NanosPerMilli)
        + ((e.nsec - s.nsec) \div NanosPerMilli)

---------------------------------------------------------------------------
NoCall == [fn |-> "none"]

Handles == DOMAIN clients

\* len(clients)
LenClients == Cardinality(DOMAIN clients)

Init ==
    /\ pc = "main"
    /\ args \in CommandLines
    /\ method = ""
    /\ opts = ZeroOptions
    /\ message = <<>>
    /\ clients = <<>>
    /\ i = 0
    /\ hasErr = FALSE
    /\ connLog = <<>>
    /\ discCount = <<>>
    /\ startTime = 0
    /\ endTime = 0
    /\ now = [sec |-> 0, nsec |-> 0]
    /\ startClock = [sec |-> 0, nsec |-> 0]
    /\ endClock = [sec |-> 0, nsec |-> 0]
    /\ id = 0
    /\ wg = 0
    /\ wpc = <<>>
    /\ windex = <<>>
    /\ wclient = <<>>
    /\ ops = <<>>
    /\ errLines = 0
    /\ out = <<>>
    /\ summary = NoSummary
    /\ fnIn = NoCall
    /\ fnOut = NoCall

---------------------------------------------------------------------------
(* main *)

execVars == <<opts, message, clients, i, hasErr, connLog, discCount>>
timeVars == <<startTime, endTime, now, startClock, endClock>>
workVars == <<id, wg, wpc, windex, wclient, ops, errLines>>

\* len(os.Args) <= 1: print the usage and return.
MainUsage ==
    /\ pc = "main"
    /\ ~args.hasArgs
    /\ out' = Append(out, "usage")
    /\ pc' = "exit"
    /\ UNCHANGED <<args, method, summary, fnIn, fnOut>>
    /\ UNCHANGED <<execVars, timeVars, workVars>>

\* validate "broker"
MainInvalidBroker ==
    /\ pc = "main"
    /\ args.hasArgs
    /\ ~ValidBroker(args.broker)
    /\ out' = Append(out, "Invalid argument : -broker")
    /\ pc' = "exit"
    /\ UNCHANGED <<args, method, summary, fnIn, fnOut>>
    /\ UNCHANGED <<execVars, timeVars, workVars>>

\* validate "action"
MainInvalidAction ==
    /\ pc = "main"
    /\ args.hasArgs
    /\ ValidBroker(args.broker)
    /\ ~ValidMethod(MethodOf(args.action))
    /\ method' = MethodOf(args.action)
    /\ out' = Append(out, "Invalid argument : -action")
    /\ pc' = "exit"
    /\ UNCHANGED <<args, summary, fnIn, fnOut>>
    /\ UNCHANGED <<execVars, timeVars, workVars>>

\* Fill the ExecOptions and call Execute with PublishAllClient or SubscribeAllClient.
MainExecute ==
    /\ pc = "main"
    /\ args.hasArgs
    /\ ValidBroker(args.broker)
    /\ ValidMethod(MethodOf(args.action))
    /\ method' = MethodOf(args.action)
    /\ opts' = OptionsOf(args)
    /\ pc' = "execute"
    /\ UNCHANGED <<args, out, summary, fnIn, fnOut>>
    /\ UNCHANGED <<message, clients, i, hasErr, connLog, discCount>>
    /\ UNCHANGED <<timeVars, workVars>>

---------------------------------------------------------------------------
(* Execute: the connect phase *)

\* message := CreateFixedSizeMessage(...); clients := make(..., opts.ClientNum),
\* which panics on a negative length.
ExecuteBegin ==
    /\ pc = "execute"
    /\ message' = CreateFixedSizeMessage(opts.MessageSize)
    /\ IF opts.ClientNum < 0
       THEN /\ pc' = "panic"
            /\ UNCHANGED <<clients, discCount>>
       ELSE /\ pc' = "connect"
            /\ clients' = [h \in 0 .. opts.ClientNum - 1 |-> "nil"]
            /\ discCount' = [h \in 0 .. opts.ClientNum - 1 |-> 0]
    /\ hasErr' = FALSE
    /\ i' = 0
    /\ UNCHANGED <<args, method, opts, connLog, out, summary, fnIn, fnOut>>
    /\ UNCHANGED <<timeVars, workVars>>

\* Connect(opts.Broker, i) returns a client.
ConnectOk ==
    /\ pc = "connect"
    /\ i < opts.ClientNum
    /\ connLog' = Append(connLog, [id |-> i, clientID |-> ClientID(i), ok |-> TRUE])
    /\ clients' = [clients EXCEPT ![i] = "live"]
    /\ i' = i + 1
    /\ UNCHANGED <<pc, args, method, opts, message, hasErr, discCount, out, summary, fnIn, fnOut>>
    /\ UNCHANGED <<timeVars, workVars>>

\* ConnectFail without the test for nil: the nil client is stored and the loop
\* goes on.
ConnectFailIgnored ==
    /\ pc = "connect"
    /\ i < opts.ClientNum
    /\ connLog' = Append(connLog, [id |-> i, clientID |-> ClientID(i), ok |-> FALSE])
    /\ out' = Append(out, "Connected error")
    /\ i' = i + 1
    /\ UNCHANGED <<pc, hasErr>>
    /\ UNCHANGED <<args, method, opts, message, clients, discCount, summary, fnIn, fnOut>>
    /\ UNCHANGED <<timeVars, workVars>>

\* ConnectFail without the break: hasErr is set and the loop goes on.
ConnectFailNoBreak ==
    /\ pc = "connect"
    /\ i < opts.ClientNum
    /\ connLog' = Append(connLog, [id |-> i, clientID |-> ClientID(i), ok |-> FALSE])
    /\ out' = Append(out, "Connected error")
    /\ hasErr' = TRUE
    /\ i' = i + 1
    /\ UNCHANGED <<pc, args, method, opts, message, clients, discCount, summary, fnIn, fnOut>>
    /\ UNCHANGED <<timeVars, workVars>>

\* Connect(opts.Broker, i) prints the error and returns nil: hasErr, break.
ConnectFail ==
    /\ pc = "connect"
    /\ i < opts.ClientNum
    /\ connLog' = Append(connLog, [id |-> i, clientID |-> ClientID(i), ok |-> FALSE])
    /\ out' = Append(out, "Connected error")
    /\ hasErr' = TRUE
    /\ pc' = "abort"
    /\ i' = 0
    /\ UNCHANGED <<args, method, opts, message, clients, discCount, summary, fnIn, fnOut>>
    /\ UNCHANGED <<timeVars, workVars>>

\* Disconnect(client): client.ForceDisconnect().
Disconnect(h) ==
    /\ clients' = [clients EXCEPT ![h] = "closed"]
    /\ discCount' = [discCount EXCEPT ![h] = @ + 1]

\* AbortStep with its test inverted: the connected clients are left open.
AbortStepInverted ==
    /\ pc = "abort"
    /\ hasErr
    /\ i < LenClients
    /\ IF clients[i] = "nil"
       THEN Disconnect(i)
       ELSE UNCHANGED <<clients, discCount>>
    /\ i' = i + 1
    /\ UNCHANGED <<pc, args, method, opts, message, hasErr, connLog, out, summary, fnIn, fnOut>>
    /\ UNCHANGED <<timeVars, workVars>>

\* if hasErr: one step of the loop that disconnects the connected clients.
AbortStep ==
    /\ pc = "abort"
    /\ hasErr
    /\ i < LenClients
    /\ IF clients[i] # "nil"
       THEN Disconnect(i)
       ELSE UNCHANGED <<clients, discCount>>
    /\ i' = i + 1
    /\ UNCHANGED <<pc, args, method, opts, message, hasErr, connLog, out, summary, fnIn, fnOut>>
    /\ UNCHANGED <<timeVars, workVars>>

\* if hasErr: the loop is over, return.
AbortReturn ==
    /\ pc = "abort"
    /\ hasErr
    /\ i >= LenClients
    /\ pc' = "aborted"
    /\ UNCHANGED <<args, method, out, summary, fnIn, fnOut>>
    /\ UNCHANGED <<execVars, timeVars, workVars>>

\* The connect loop ends with no error: time.Sleep(3 * time.Second).
ConnectDone ==
    /\ pc = "connect"
    /\ i >= opts.ClientNum
    /\ ~hasErr
    /\ pc' = "sleep"
    /\ UNCHANGED <<args, method, out, summary, fnIn, fnOut>>
    /\ UNCHANGED <<execVars, timeVars, workVars>>

---------------------------------------------------------------------------
(* Execute: the timed phase *)

\* startTime := time.Now().Nanosecond(); exec(clients, opts, message) is entered:
\* wg := new(sync.WaitGroup), id := 0.
StartTimer ==
    /\ pc = "sleep"
    /\ \E c \in StartClocks :
        /\ now' = c
        /\ startClock' = c
        /\ startTime' = Nanosecond(c)
    /\ id' = 0
    /\ wg' = 0
    /\ wpc' = [w \in Handles |-> "idle"]
    /\ windex' = [w \in Handles |-> 0]
    /\ wclient' = [w \in Handles |-> 0]
    /\ ops' = [w \in Handles |-> <<>>]
    /\ errLines' = 0
    /\ pc' = "spawn"
    /\ UNCHANGED <<args, method, out, summary, endTime, endClock, fnIn, fnOut>>
    /\ UNCHANGED execVars

\* for id < len(clients): client := clients[id]; wg.Add(1); go func() {...}()
SpawnWorker ==
    /\ pc = "spawn"
    /\ id < LenClients
    /\ wclient' = [wclient EXCEPT ![id] = id]
    /\ wg' = wg + 1
    /\ wpc' = [wpc EXCEPT ![id] = "loop"]
    /\ pc' = "spawn_inc"
    /\ UNCHANGED <<args, method, out, summary, id, windex, ops, errLines, fnIn, fnOut>>
    /\ UNCHANGED <<execVars, timeVars>>

\* id++
SpawnInc ==
    /\ pc = "spawn_inc"
    /\ id' = id + 1
    /\ pc' = "spawn"
    /\ UNCHANGED <<args, method, out, summary, wg, wpc, windex, wclient, ops, errLines, fnIn, fnOut>>
    /\ UNCHANGED <<execVars, timeVars>>

\* The spawning loop is over: wg.Wait() is entered.
SpawnDone ==
    /\ pc = "spawn"
    /\ id >= LenClients
    /\ pc' = "wg_wait"
    /\ UNCHANGED <<args, method, out, summary, fnIn, fnOut>>
    /\ UNCHANGED <<execVars, timeVars, workVars>>

\* The goroutine's loop condition.
LoopCond(index) == index < opts.Count

\* Operation with the client looked up through the shared loop variable id
\* (clients[id], while id is in range) instead of the captured client.
OperationSharedClient(w, kind) ==
    [kind |-> kind, handle |-> IF id < LenClients THEN id ELSE wclient[w],
     id |-> id, index |-> windex[w],
     qos |-> opts.Qos, payload |-> IF kind = "publish" THEN message ELSE <<>>]

\* The operation of one iteration: the handle is the captured client, the
\* topic is built from the shared loop variable id as it is when read.
Operation(w, kind) ==
    [kind |-> kind, handle |-> wclient[w], id |-> id, index |-> windex[w],
     qos |-> opts.Qos, payload |-> IF kind = "publish" THEN message ELSE <<>>]

\* The topic of a logged operation, built from the id and index it read.
TopicOf(op) == Topic(op.id, op.index)

\* WorkerPublish without token.Wait(): the loop goes on at once.
WorkerPublishNoWait(w) ==
    /\ method = "pub"
    /\ wpc[w] = "loop"
    /\ LoopCond(windex[w])
    /\ ops' = [ops EXCEPT ![w] = Append(@, Operation(w, "publish"))]
    /\ windex' = [windex EXCEPT ![w] = @ + 1]
    /\ UNCHANGED <<pc, args, method, out, summary, id, wg, wpc, wclient, errLines, fnIn, fnOut>>
    /\ UNCHANGED <<execVars, timeVars>>

\* Publish(client, topic, opts.Qos, message): client.Publish(...) returns a token.
WorkerPublish(w) ==
    /\ method = "pub"
    /\ wpc[w] = "loop"
    /\ LoopCond(windex[w])
    /\ ops' = [ops EXCEPT ![w] = Append(@, Operation(w, "publish"))]
    /\ wpc' = [wpc EXCEPT ![w] = "wait"]
    /\ UNCHANGED <<pc, args, method, out, summary, id, wg, windex, wclient, errLines, fnIn, fnOut>>
    /\ UNCHANGED <<execVars, timeVars>>

\* Subscribe(client, topic, opts.Qos): client.Subscribe(...) returns a token.
WorkerSubscribe(w) ==
    /\ method = "sub"
    /\ wpc[w] = "loop"
    /\ LoopCond(windex[w])
    /\ ops' = [ops EXCEPT ![w] = Append(@, Operation(w, "subscribe"))]
    /\ wpc' = [wpc EXCEPT ![w] = "wait"]
    /\ UNCHANGED <<pc, args, method, out, summary, id, wg, windex, wclient, errLines, fnIn, fnOut>>
    /\ UNCHANGED <<execVars, timeVars>>

\* AfterWait with an error ending the worker: its deferred wg.Done() runs.
AfterWaitReturnOnError(w, err) ==
    /\ errLines' = IF err THEN errLines + 1 ELSE errLines
    /\ windex' = IF err THEN windex ELSE [windex EXCEPT ![w] = @ + 1]
    /\ wpc' = [wpc EXCEPT ![w] = IF err THEN "done" ELSE "loop"]
    /\ wg' = IF err THEN wg - 1 ELSE wg

\* What the worker does once token.Wait() has returned with the given error:
\* the error is printed and the loop goes on (index++).
AfterWait(w, err) ==
    /\ errLines' = IF err THEN errLines + 1 ELSE errLines
    /\ windex' = [windex EXCEPT ![w] = @ + 1]
    /\ wpc' = [wpc EXCEPT ![w] = "loop"]
    /\ wg' = wg

\* token.Wait() returns, with or without an error.
WorkerWait(w) ==
    /\ wpc[w] = "wait"
    /\ \E err \in BOOLEAN : AfterWait(w, err)
    /\ UNCHANGED <<pc, args, method, out, summary, id, wclient, ops, fnIn, fnOut>>
    /\ UNCHANGED <<execVars, timeVars>>

\* The goroutine's loop is over: the deferred wg.Done() runs.
WorkerExit(w) ==
    /\ wpc[w] = "loop"
    /\ ~LoopCond(windex[w])
    /\ wpc' = [wpc EXCEPT ![w] = "done"]
    /\ wg' = wg - 1
    /\ UNCHANGED <<pc, args, method, out, summary, id, windex, wclient, ops, errLines, fnIn, fnOut>>
    /\ UNCHANGED <<execVars, timeVars>>

\* EndTimer with a wg.Wait() that does not wait for the counter to be zero.
EndTimerNoWait ==
    /\ pc = "wg_wait"
    /\ \E d \in ElapsedSamples :
        /\ now' = ClockAdd(now, d)
        /\ endClock' = ClockAdd(now, d)
        /\ endTime' = Nanosecond(ClockAdd(now, d))
    /\ i' = 0
    /\ pc' = "disconnect"
    /\ UNCHANGED <<args, method, out, summary, startTime, startClock, fnIn, fnOut>>
    /\ UNCHANGED <<opts, message, clients, hasErr, connLog, discCount>>
    /\ UNCHANGED workVars

\* wg.Wait() returns when the counter is zero; endTime := time.Now().Nanosecond().
EndTimer ==
    /\ pc = "wg_wait"
    /\ wg = 0
    /\ \E d \in ElapsedSamples :
        /\ now' = ClockAdd(now, d)
        /\ endClock' = ClockAdd(now, d)
        /\ endTime' = Nanosecond(ClockAdd(now, d))
    /\ i' = 0
    /\ pc' = "disconnect"
    /\ UNCHANGED <<args, method, out, summary, startTime, startClock, fnIn, fnOut>>
    /\ UNCHANGED <<opts, message, clients, hasErr, connLog, discCount>>
    /\ UNCHANGED workVars

---------------------------------------------------------------------------
(* Execute: disconnect and report *)

\* DisconnectStep stepping by two: every other handle is left open.
DisconnectStepByTwo ==
    /\ pc = "disconnect"
    /\ i < LenClients
    /\ Disconnect(i)
    /\ i' = i + 2
    /\ UNCHANGED <<pc, args, method, opts, message, hasErr, connLog, out, summary, fnIn, fnOut>>
    /\ UNCHANGED <<timeVars, workVars>>

\* for i < len(clients): Disconnect(clients[i])
DisconnectStep ==
    /\ pc = "disconnect"
    /\ i < LenClients
    /\ Disconnect(i)
    /\ i' = i + 1
    /\ UNCHANGED <<pc, args, method, opts, message, hasErr, connLog, out, summary, fnIn, fnOut>>
    /\ UNCHANGED <<timeVars, workVars>>

\* duration := (endTime - startTime) / 1000000
Duration(s, e) == GoDiv(e - s, NanosPerMilli)

\* The result line: totalCount, duration and throughput. The throughput is a
\* float64 quotient, kept here as its dividend and divisor.
Report ==
    /\ pc = "disconnect"
    /\ i >= LenClients
    /\ summary' =
        [printed |-> TRUE, broker |-> opts.Broker, clients |-> opts.ClientNum,
         count |-> opts.Count, totalCount |-> opts.ClientNum * opts.Count,
         duration |-> Duration(startTime, endTime),
         divisor |-> Duration(startTime, endTime)]
    /\ out' = Append(out, "Publish result")
    /\ pc' = "reported"
    /\ UNCHANGED <<args, method, fnIn, fnOut>>
    /\ UNCHANGED <<execVars, timeVars, workVars>>

---------------------------------------------------------------------------
Next ==
    \/ MainUsage
    \/ MainInvalidBroker
    \/ MainInvalidAction
    \/ MainExecute
    \/ ExecuteBegin
    \/ ConnectOk
    \/ ConnectFail
    \/ AbortStep
    \/ AbortReturn
    \/ ConnectDone
    \/ StartTimer
    \/ SpawnWorker
    \/ SpawnInc
    \/ SpawnDone
    \/ \E w \in DOMAIN wpc : WorkerPublish(w)
    \/ \E w \in DOMAIN wpc : WorkerSubscribe(w)
    \/ \E w \in DOMAIN wpc : WorkerWait(w)
    \/ \E w \in DOMAIN wpc : WorkerExit(w)
    \/ EndTimer
    \/ DisconnectStep
    \/ Report

Spec == Init /\ [][Next]_vars

\* The steps of the main goroutine.
Driver ==
    \/ MainUsage
    \/ MainInvalidBroker
    \/ MainInvalidAction
    \/ MainExecute
    \/ ExecuteBegin
    \/ ConnectOk
    \/ ConnectFail
    \/ AbortStep
    \/ AbortReturn
    \/ ConnectDone
    \/ StartTimer
    \/ SpawnWorker
    \/ SpawnInc
    \/ SpawnDone
    \/ EndTimer
    \/ DisconnectStep
    \/ Report

\* The steps of the goroutine spawned for client w.
Worker(w) ==
    /\ w \in DOMAIN wpc
    /\ (WorkerPublish(w) \/ WorkerSubscribe(w) \/ WorkerWait(w) \/ WorkerExit(w))

\* The run under a fair scheduler, every Connect and token.Wait() returning:
\* the main goroutine and each worker goroutine take their next step whenever
\* it stays possible.
FairSpec ==
    /\ Spec
    /\ WF_vars(Driver)
    /\ \A w \in 0 .. MaxClients - 1 : WF_vars(Worker(w))

---------------------------------------------------------------------------
(* The pure functions, applied on their own to arguments drawn from bounded *)
(* sets: CreateFixedSizeMessage, and the topic expression of the workers.   *)

\* Client indices and iteration indices: the small ones, and the ones around
\* the places where the UTF-8 encoding changes its length or its validity.
ClientSamples == 0 .. MaxIndex
IndexSamples ==
    (0 .. MaxIndex) \cup
    {47, 127, 128, 2047, 2048, 55295, 55296, 55297, 57343, 57344, 65533, 65536}

FnCalls ==
    [fn : {"CreateFixedSizeMessage"}, size : -1 .. MaxMsgSize] \cup
    [fn : {"Topic"}, id1 : ClientSamples, index1 : IndexSamples,
     id2 : ClientSamples, index2 : IndexSamples] \cup
    [fn : {"ClientID"}, id1 : IndexSamples, id2 : IndexSamples]

InitFn ==
    /\ pc = "fn"
    /\ args = DefaultArgs
    /\ method = ""
    /\ opts = ZeroOptions
    /\ message = <<>>
    /\ clients = <<>>
    /\ i = 0
    /\ hasErr = FALSE
    /\ connLog = <<>>
    /\ discCount = <<>>
    /\ startTime = 0
    /\ endTime = 0
    /\ now = [sec |-> 0, nsec |-> 0]
    /\ startClock = [sec |-> 0, nsec |-> 0]
    /\ endClock = [sec |-> 0, nsec |-> 0]
    /\ id = 0
    /\ wg = 0
    /\ wpc = <<>>
    /\ windex = <<>>
    /\ wclient = <<>>
    /\ ops = <<>>
    /\ errLines = 0
    /\ out = <<>>
    /\ summary = NoSummary
    /\ fnIn \in FnCalls
    /\ fnOut = NoCall

fnFrame ==
    <<pc, args, method, opts, message, clients, i, hasErr, connLog, discCount,
      startTime, endTime, now, startClock, endClock, id, wg, wpc, windex,
      wclient, ops, errLines, out, summary, fnIn>>

ApplyCreateFixedSizeMessage ==
    /\ pc = "fn"
    /\ fnIn.fn = "CreateFixedSizeMessage"
    /\ fnOut = NoCall
    /\ fnOut' = [fn |-> fnIn.fn, message |-> CreateFixedSizeMessage(fnIn.size)]
    /\ UNCHANGED fnFrame

ApplyTopic ==
    /\ pc = "fn"
    /\ fnIn.fn = "Topic"
    /\ fnOut = NoCall
    /\ fnOut' = [fn |-> fnIn.fn, topic1 |-> Topic(fnIn.id1, fnIn.index1),
                 topic2 |-> Topic(fnIn.id2, fnIn.index2)]
    /\ UNCHANGED fnFrame

\* The client IDs Connect sets for two client indices.
ApplyClientID ==
    /\ pc = "fn"
    /\ fnIn.fn = "ClientID"
    /\ fnOut = NoCall
    /\ fnOut' = [fn |-> fnIn.fn, clientID1 |-> ClientID(fnIn.id1),
                 clientID2 |-> ClientID(fnIn.id2)]
    /\ UNCHANGED fnFrame

NextFn ==
    \/ ApplyCreateFixedSizeMessage
    \/ ApplyTopic
    \/ ApplyClientID

SpecFn == InitFn /\ [][NextFn]_vars

---------------------------------------------------------------------------
(* Properties *)

ConnectFailed == \E k \in 1 .. Len(connLog) : ~connLog[k].ok

Connected(h) == \E k \in 1 .. Len(connLog) : connLog[k].id = h /\ connLog[k].ok

SummaryLines == {k \in 1 .. Len(out) : out[k] = "Publish result"}

RECURSIVE OpCount(_)
OpCount(S) ==
    IF S = {} THEN 0
    ELSE LET w == CHOOSE x \in S : TRUE IN Len(ops[w]) + OpCount(S \ {w})

\* Execute has been called.
ExecuteInvoked == pc \notin {"main", "exit", "fn"}

ValidActions == {"p", "pub", "publish", "s", "sub", "subscribe"}

\* C1: once a Connect call has returned nil, Execute only cleans up and
\* returns: exec is never invoked (no worker, no operation), no result line is
\* printed, and when Execute has returned every handle whose Connect succeeded
\* has been disconnected (once) and no other handle has been touched.
C1_AbortOnConnectFailure ==
    ConnectFailed =>
        /\ pc \in {"abort", "aborted"}
        /\ ops = <<>> /\ wpc = <<>> /\ wg = 0
        /\ ~summary.printed
        /\ SummaryLines = {}
        /\ pc = "aborted" =>
            \A h \in Handles :
                IF Connected(h)
                THEN clients[h] = "closed" /\ discCount[h] = 1
                ELSE clients[h] = "nil" /\ discCount[h] = 0

\* A run in which the second of at least two connects failed has returned,
\* with the first handle disconnected.
C1_Witness ==
    /\ pc = "aborted"
    /\ ConnectFailed
    /\ \E h \in Handles : Connected(h) /\ clients[h] = "closed"

\* What the join barrier leaves behind: each of the N workers has issued
\* exactly C operations, all on its own handle, so N x C operations were
\* attempted, which is the total count of the report.
OperationsPerWorker ==
    /\ LenClients = opts.ClientNum
    /\ \A w \in Handles :
        /\ Len(ops[w]) = opts.Count
        /\ \A k \in 1 .. Len(ops[w]) : ops[w][k].handle = w
    /\ OpCount(Handles) = opts.ClientNum * opts.Count
    /\ pc = "reported" => summary.totalCount = OpCount(Handles)

\* C2: in a run where all N connects succeeded, for every accepted -clients N
\* and -count C, once the join barrier is passed each worker has issued
\* exactly C operations and N x C operations were attempted in all.
C2_OperationsPerWorker ==
    pc \in {"disconnect", "reported"} => OperationsPerWorker

\* The same for the runs whose count is not negative.
C2_OperationsPerWorkerNonNegative ==
    (pc \in {"disconnect", "reported"} /\ opts.Count >= 0) => OperationsPerWorker

\* C3: the topic of the j-th operation of the worker that owns client index i
\* embeds i and j, so no two operations of a run use the same topic.
C3_TopicPerClientAndIteration ==
    /\ \A w \in DOMAIN ops : \A k \in 1 .. Len(ops[w]) :
        TopicOf(ops[w][k]) = Topic(w, k - 1)
    /\ \A w1, w2 \in DOMAIN ops :
        \A k1 \in 1 .. Len(ops[w1]) : \A k2 \in 1 .. Len(ops[w2]) :
            (w1 # w2 \/ k1 # k2) => TopicOf(ops[w1][k1]) # TopicOf(ops[w2][k2])

\* C4: two distinct (clientIndex, iteration) pairs never produce the same
\* topic string.
C4_TopicInjective ==
    fnOut.fn = "Topic" =>
        (<<fnIn.id1, fnIn.index1>> # <<fnIn.id2, fnIn.index2>>
            => fnOut.topic1 # fnOut.topic2)

\* C5: a failed publish or subscribe is not fatal: once an error line has been
\* printed the run still goes on to its report; a worker only ends after all
\* Count iterations, the barrier is passed only with every worker ended, the
\* reported total is still ClientNum x Count, the result line is printed, and
\* the run is never stuck before it.
C5_OperationFailureNonFatal ==
    errLines > 0 =>
        /\ pc \in {"spawn", "spawn_inc", "wg_wait", "disconnect", "reported"}
        /\ \A w \in Handles : wpc[w] = "done" => Len(ops[w]) = opts.Count
        /\ pc \in {"disconnect", "reported"} =>
            \A w \in Handles : wpc[w] = "done"
        /\ pc = "reported" =>
            /\ summary.printed
            /\ summary.totalCount = opts.ClientNum * opts.Count
            /\ out[Len(out)] = "Publish result"
        /\ pc # "reported" => ENABLED Next

\* A run of at least two clients in which at least two operations failed has
\* reported.
C5_Witness ==
    /\ pc = "reported"
    /\ errLines >= 2
    /\ LenClients >= 2
    /\ opts.Count >= 2

\* The options are the ones a validated command line gives.
ValidatedRun == opts.ClientNum >= 1 /\ opts.Count >= 1

\* C6: the duration reported by a run (of at least one client and one
\* operation) is the wall-clock time between the two timestamps in
\* milliseconds, and is never negative.
C6_DurationIsWallClock ==
    (pc = "reported" /\ ValidatedRun) =>
        /\ summary.duration = WallElapsedMs(startClock, endClock)
        /\ summary.duration >= 0

\* C7: whenever the result line of a run (of at least one client and one
\* operation) is printed, the reported duration is strictly greater than 0, so
\* the throughput's divisor is not zero.
C7_DurationPositive ==
    (summary.printed /\ ValidatedRun) =>
        summary.duration > 0 /\ summary.divisor # 0

\* C8: for size >= 0 the message has length size and its character at
\* position k is the decimal digit character of k mod 10 ('0' is 48).
C8_MessageDigits ==
    (fnOut.fn = "CreateFixedSizeMessage" /\ fnIn.size >= 0) =>
        /\ Len(fnOut.message) = fnIn.size
        /\ \A k \in 0 .. fnIn.size - 1 : fnOut.message[k + 1] = 48 + (k % 10)

\* C9: Execute is invoked only for a broker that is neither empty nor the
\* placeholder and an action among p, pub, publish, s, sub, subscribe; for
\* every other command line no Connect is attempted, no result line is
\* printed, and main ends having printed exactly the usage (no arguments) or
\* the diagnostic of the flag it rejected.
C9_ConfigErrorsAbortEarly ==
    LET brokerOk == args.broker # "" /\ args.broker # "tcp://{host}:{port}"
        inputOk == brokerOk /\ args.action \in ValidActions
    IN  /\ ExecuteInvoked => args.hasArgs /\ inputOk
        /\ ~inputOk =>
            /\ pc \in {"main", "exit"}
            /\ connLog = <<>>
            /\ ~summary.printed
            /\ SummaryLines = {}
            /\ pc = "exit" =>
                out = IF ~args.hasArgs THEN <<"usage">>
                      ELSE IF ~brokerOk THEN <<"Invalid argument : -broker">>
                      ELSE <<"Invalid argument : -action">>

\* main has returned on -action=foo with a valid broker, having printed the
\* diagnostic.
C9_Witness ==
    /\ pc = "exit"
    /\ args.action = "foo"
    /\ args.broker = "tcp://localhost:1883"
    /\ out = <<"Invalid argument : -action">>

\* C10: Execute is only invoked with validated options: client count >= 1,
\* count >= 1, message size >= 0, and a QoS among 0, 1, 2 equal to the -qos flag.
C10_OptionsValidated ==
    ExecuteInvoked =>
        /\ opts.ClientNum >= 1
        /\ opts.Count >= 1
        /\ opts.MessageSize >= 0
        /\ opts.Qos \in {0, 1, 2}
        /\ opts.Qos = args.qos

\* A worker that has an operation in flight or iterations left.
Busy(w) == wpc[w] \in {"loop", "wait"} \/ (wpc[w] = "idle" /\ LoopCond(0))

\* C11: in a run where all connects succeeded, no handle is disconnected
\* while a worker still has an operation in flight or remaining, no handle is
\* ever disconnected twice, and when the result line is printed every handle
\* has been disconnected exactly once, whatever the number of failed operations.
C11_DisconnectAllOnceAfterJoin ==
    ~ConnectFailed =>
        /\ \A h \in Handles : discCount[h] <= 1
        /\ (\E h \in Handles : discCount[h] > 0) =>
            /\ pc \in {"disconnect", "reported"}
            /\ \A w \in Handles : ~Busy(w)
        /\ summary.printed =>
            \A h \in Handles : discCount[h] = 1 /\ clients[h] = "closed"

\* A run of at least two clients with a failed operation has reported, all its
\* handles closed.
C11_Witness ==
    /\ pc = "reported"
    /\ LenClients >= 2
    /\ errLines >= 1
    /\ \A h \in Handles : discCount[h] = 1

\* C12: the barrier releases (the end timestamp is taken) only once every
\* worker has completed all its iterations and ended; until then the WaitGroup
\* counter is the number of workers spawned and not yet ended, each counted
\* before it was spawned.
C12_JoinBarrier ==
    /\ pc \in {"disconnect", "reported"} =>
        \A w \in Handles :
            /\ wpc[w] = "done"
            /\ ~LoopCond(windex[w])
            /\ opts.Count >= 0 => Len(ops[w]) = opts.Count
    /\ pc \in {"spawn", "spawn_inc", "wg_wait"} =>
        /\ wg = Cardinality({w \in Handles : wpc[w] \in {"loop", "wait"}})
        /\ \A w \in Handles : wpc[w] # "idle" <=> (w < id \/ (w = id /\ pc = "spawn_inc"))
    /\ endTime # 0 => pc \in {"disconnect", "reported"}

\* The main goroutine is blocked in wg.Wait() while one worker has ended and
\* another still has an operation in flight.
C12_Witness ==
    /\ pc = "wg_wait"
    /\ wg >= 1
    /\ \E w \in Handles : wpc[w] = "done"
    /\ \E w \in Handles : wpc[w] = "wait"

\* The Driver's state at a position of the main goroutine. Before Execute has
\* made its slice of handles (and when that make panics) the Driver is Idle.
DriverState(p) ==
    CASE p = "connect" -> "Connecting"
      [] p \in {"abort", "aborted"} -> "Aborted"
      [] p = "sleep" -> "Connected"
      [] p \in {"spawn", "spawn_inc", "wg_wait"} -> "Running"
      [] p = "disconnect" -> "Disconnecting"
      [] p = "reported" -> "Reported"
      [] OTHER -> "Idle"

DriverEdges ==
    {<<"Idle", "Connecting">>, <<"Connecting", "Aborted">>,
     <<"Connecting", "Connected">>, <<"Connected", "Running">>,
     <<"Running", "Disconnecting">>, <<"Disconnecting", "Reported">>}

AllConnected ==
    /\ Len(connLog) = opts.ClientNum
    /\ \A k \in 1 .. Len(connLog) : connLog[k].ok
    /\ \A h \in Handles : clients[h] # "nil"

\* No worker and no start timestamp before all connects succeeded; no nil
\* handle in a worker's hands; Aborted and Reported exclude each other.
DriverInvariant ==
    /\ (startTime # 0 \/ wpc # <<>> \/ DriverState(pc) \in {"Running", "Disconnecting", "Reported"})
        => AllConnected /\ ~hasErr
    /\ \A w \in DOMAIN wpc :
        wpc[w] # "idle" => wclient[w] \in Handles /\ clients[wclient[w]] # "nil"
    /\ \A w \in DOMAIN ops : \A k \in 1 .. Len(ops[w]) :
        ops[w][k].handle \in Handles /\ clients[ops[w][k].handle] # "nil"
    /\ DriverState(pc) = "Aborted" => ~summary.printed /\ hasErr /\ startTime = 0
    /\ DriverState(pc) = "Reported" => ~hasErr /\ ~ConnectFailed

\* A step of the Driver: it stays in its state or follows an edge, never
\* leaves Aborted, and takes no step at all once Execute has returned.
DriverStep ==
    /\ pc \notin {"aborted", "reported"}
    /\ \/ DriverState(pc') = DriverState(pc)
       \/ <<DriverState(pc), DriverState(pc')>> \in DriverEdges

\* C13: the Driver only moves along Idle -> Connecting -> (Aborted |
\* Connected) -> Running -> Disconnecting -> Reported; no worker is spawned and
\* no start timestamp taken until all N connects have succeeded; a nil handle
\* never reaches a worker; Aborted and Reported are terminal and exclude each
\* other.
C13_DriverStateMachine == []DriverInvariant /\ [][DriverStep]_vars

\* A run of at least two clients has gone through every state up to Reported.
C13_Witness ==
    /\ DriverState(pc) = "Reported"
    /\ LenClients >= 2
    /\ OpCount(Handles) >= 2
    /\ startTime # 0

\* C14: each worker uses exactly one handle, the one at its own index, and no
\* two workers ever issue an operation on the same handle.
C14_HandleExclusive ==
    /\ \A w \in DOMAIN wpc : wpc[w] # "idle" => wclient[w] = w
    /\ \A w \in DOMAIN ops : \A k \in 1 .. Len(ops[w]) : ops[w][k].handle = w
    /\ LET used == [w \in DOMAIN ops |-> {ops[w][k].handle : k \in 1 .. Len(ops[w])}]
       IN  \A w1, w2 \in DOMAIN ops : w1 # w2 => used[w1] \cap used[w2] = {}

\* Two workers have an operation in flight at the same time, while the
\* spawning loop has moved on.
C14_Witness ==
    /\ {0, 1} \subseteq DOMAIN wpc
    /\ wpc[0] = "wait"
    /\ wpc[1] = "wait"
    /\ id >= 2

\* The operations in flight on a handle.
InFlight(h) == {w \in DOMAIN wpc : wpc[w] = "wait" /\ wclient[w] = h}

\* A worker's operations are those of iterations 0, 1, 2, ..., all completed
\* but the one in flight, and a handle has at most one operation in flight.
SequentialInvariant ==
    /\ \A w \in DOMAIN ops :
        /\ \A k \in 1 .. Len(ops[w]) : ops[w][k].index = k - 1
        /\ Len(ops[w]) = windex[w] + (IF wpc[w] = "wait" THEN 1 ELSE 0)
        /\ Len(ops[w]) > 0 => Len(ops[w]) <= opts.Count
    /\ \A h \in Handles : Cardinality(InFlight(h)) <= 1

\* A worker issues an operation only when it has none in flight, and then
\* waits for it.
SequentialStep ==
    \A w \in (DOMAIN ops) \cap (DOMAIN ops') :
        ops'[w] # ops[w] =>
            /\ wpc[w] = "loop"
            /\ wpc'[w] = "wait"
            /\ Len(ops'[w]) = Len(ops[w]) + 1
            /\ SubSeq(ops'[w], 1, Len(ops[w])) = ops[w]

\* C15: a worker starts iteration j+1 only after the operation of iteration j
\* has completed; a handle has at most one operation in flight; a worker's
\* operations are issued in the order 0 .. Count-1.
C15_WorkerSequential == []SequentialInvariant /\ [][SequentialStep]_vars

\* A worker has its second operation in flight, the first one completed.
C15_Witness ==
    \E w \in DOMAIN wpc :
        /\ wpc[w] = "wait"
        /\ windex[w] = 1
        /\ Len(ops[w]) = 2

\* The join barrier: the disconnect phase and the summary are reached only
\* when no worker has an operation in flight or left to issue.
BarrierHolds ==
    pc \in {"disconnect", "reported"} =>
        \A w \in DOMAIN wpc : wpc[w] = "done"

\* An operation that has not completed stays in flight until its wait returns.
InFlightUntilReturn ==
    \A w \in (DOMAIN wpc) \cap (DOMAIN wpc') :
        (wpc[w] = "wait" /\ wpc'[w] # "wait") => WorkerWait(w)

\* C16: under fair scheduling, every wait returning, Execute once invoked
\* ends in Reported or Aborted; and while an operation has not completed the
\* run is neither in Disconnecting nor in Reported.
C16_RunTerminates ==
    /\ ExecuteInvoked ~> (pc \in {"reported", "aborted"})
    /\ []BarrierHolds
    /\ [][InFlightUntilReturn]_vars

\* The same for the runs whose number of clients is not negative.
C16_RunTerminatesNonNegative ==
    /\ (ExecuteInvoked /\ opts.ClientNum >= 0) ~> (pc \in {"reported", "aborted"})
    /\ []BarrierHolds
    /\ [][InFlightUntilReturn]_vars

\* C17: the client IDs Connect sets for two different client indices differ.
C17_ClientIDDistinct ==
    fnOut.fn = "ClientID" =>
        (fnIn.id1 # fnIn.id2 => fnOut.clientID1 # fnOut.clientID2)

PublishActions == {"p", "pub", "publish"}

SubscribeActions == {"s", "sub", "subscribe"}

\* Every operation issued so far, by any worker.
AllOps == UNION {{ops[w][k] : k \in 1 .. Len(ops[w])} : w \in DOMAIN ops}

\* C18: with a publish action every operation of the run is a publish whose
\* payload is CreateFixedSizeMessage(MessageSize), with a subscribe action
\* every operation is a subscribe, and operations exist only under one of
\* these actions, so no run has operations of both kinds.
C18_ActionFixesOperationKind ==
    LET all == AllOps
        payload == CreateFixedSizeMessage(opts.MessageSize)
    IN  all # {} =>
            /\ args.action \in PublishActions \cup SubscribeActions
            /\ args.action \in PublishActions =>
                \A op \in all : op.kind = "publish" /\ op.payload = payload
            /\ args.action \in SubscribeActions =>
                \A op \in all : op.kind = "subscribe"
            /\ Cardinality({op.kind : op \in all}) = 1

\* A publish run ended with at least two publishes by different workers, all
\* carrying the generated message.
C18_Witness ==
    /\ pc = "reported"
    /\ args.action \in PublishActions
    /\ Len(message) >= 2
    /\ \E w1, w2 \in DOMAIN ops :
        /\ w1 # w2
        /\ Len(ops[w1]) >= 1
        /\ Len(ops[w2]) >= 1
        /\ ops[w1][1].payload = message
        /\ ops[w2][1].payload = message

\* The index of the failed connect, when there is one.
FailedIndex == connLog[Len(connLog)].id

\* C19: connects are attempted in the order 0, 1, 2, ..., none after a failed
\* one; when the connect of index k failed exactly the handles 0 .. k-1 were
\* created, only they are disconnected, and each of them has been disconnected
\* once when Execute returns.
C19_ConnectSequentialStopAtFailure ==
    /\ \A k \in 1 .. Len(connLog) : connLog[k].id = k - 1
    /\ \A k \in 1 .. Len(connLog) : ~connLog[k].ok => k = Len(connLog)
    /\ ConnectFailed =>
        /\ pc \in {"abort", "aborted"}
        /\ \A h \in Handles :
            /\ clients[h] # "nil" <=> h < FailedIndex
            /\ discCount[h] <= (IF h < FailedIndex THEN 1 ELSE 0)
            /\ pc = "aborted" => discCount[h] = (IF h < FailedIndex THEN 1 ELSE 0)

\* The first of two connects failed: the second was never attempted and no
\* handle was disconnected.
C19_Witness ==
    /\ pc = "aborted"
    /\ opts.ClientNum = 2
    /\ Len(connLog) = 1
    /\ FailedIndex = 0
    /\ \A h \in Handles : discCount[h] = 0

=============================================================================
